---- MODULE Spec2Model ----
(***************************************************************************)
(* A model of myaku/japanese_analysis.py: the MeCab tagger adapter         *)
(* (MecabTagger), the JMdict dictionary store with its shelf cache         *)
(* (JMdict) and the analyzer (JapaneseTextAnalyzer); and of                 *)
(* docker/myaku_run-tests/run_tests.py: the test stack (TestMyakuStack)    *)
(* and teardown_test_stacks.                                               *)
(*                                                                         *)
(* A text is a sequence of characters (one-character strings), so Len     *)
(* counts code points like Python's len.  An optional value is a sequence  *)
(* of length at most one: None is <<>> and the value x is <<x>>.           *)
(***************************************************************************)
EXTENDS Integers, Sequences, FiniteSets, TLC

VARIABLES
  \* --- JapaneseTextAnalyzer.find_article_lexical_items ------------------
  apc,        \* position in find_article_lexical_items
  full_text,  \* article.full_text
  jmdict,     \* the analyzer's loaded JMdict (self._jmdict)
  blocks,     \* article_blocks still to be visited by the for loop
  offset,     \* the running character offset of the loop
  items,      \* article_lexical_items
  result,     \* the returned list (Some) once the call has returned
  lookups,    \* the windows _find_meta_lexical_items has looked up in this call
  prev,       \* the list an earlier call on the same article returned (Some)
  \* --- MecabTagger.parse ------------------------------------------------
  ppc,                \* position in parse
  parse_text,         \* the argument text
  parse_text_offset,  \* the argument text_offset
  parse_mecab_out,    \* the lines of mecab_out = self._mecab_tagger.parse(text)
  parse_tokens,       \* the parsed_tokens the for loop has still to visit
  parse_offset,       \* the local variable offset
  parse_found,        \* the local variable found_lexical_items
  \* --- JMdict and the files it reads and writes -------------------------
  pc,         \* position in load_jmdict of the one JMdict object
  store,      \* the JMdict object's fields
  xml,        \* the JMdict XML files on disk, by path
  shelf,      \* the shelf file in the app data directory
  clock,      \* the file system's clock (modification times)
  last,       \* the most recent call on the JMdict object and how it ended
  loadedOk,   \* a load_jmdict call has returned normally on this object
  shelfFrom,  \* the indexes of the XML load that wrote the shelf's content
  \* --- run_tests.py: "with TestMyakuStack() as test_stack: ..." ----------
  spc,                  \* position in the with statement
  use_existing_images,  \* TestMyakuStack.use_existing_images
  waited_secs,          \* the local of _wait_for_all_containers_running
  all_running,          \* the local all_running (Some) once a poll has set it
  polls,                \* the polls of the services _wait_... has made
  trace,                \* the docker commands run and debug info logged, in order
  exc,                  \* the exception in flight or propagated (Some)
  \* --- run_tests.py: teardown_test_stacks --------------------------------
  tpc,          \* position in teardown_test_stacks
  docker_objs,  \* the docker objects there are when it is called, by kind
  todo,         \* the objects the running for loop has still to visit
  attempted,    \* the objects whose removal has been attempted
  warned        \* the objects a warning was logged for

avars == <<apc, full_text, jmdict, blocks, offset, items, result, lookups, prev>>
dvars == <<pc, store, xml, shelf, clock, last, loadedOk, shelfFrom>>
pvars == <<ppc, parse_text, parse_text_offset, parse_mecab_out, parse_tokens,
           parse_offset, parse_found>>
svars == <<spc, use_existing_images, waited_secs, all_running, polls, trace, exc>>
tvars == <<tpc, docker_objs, todo, attempted, warned>>
vars == <<apc, full_text, jmdict, blocks, offset, items, result, lookups, prev,
          pc, store, xml, shelf, clock, last, loadedOk, shelfFrom,
          ppc, parse_text, parse_text_offset, parse_mecab_out, parse_tokens,
          parse_offset, parse_found,
          spc, use_existing_images, waited_secs, all_running, polls, trace, exc,
          tpc, docker_objs, todo, attempted, warned>>

\* ------------------------------------------------------------------------
\* Bounds of the model
\* ------------------------------------------------------------------------
MaxTextLen == 3
MaxClock == 1
MaxParseTextLen == 3
MaxParseLines == 2

\* ------------------------------------------------------------------------
\* Generic helpers
\* ------------------------------------------------------------------------
None == <<>>
Some(x) == <<x>>
IsNone(o) == Len(o) = 0
Val(o) == o[1]

Range(s) == {s[i] : i \in 1..Len(s)}

RECURSIVE Concat(_)
Concat(ss) == IF ss = <<>> THEN <<>> ELSE Head(ss) \o Concat(Tail(ss))

RECURSIVE SumLen(_)
SumLen(ss) == IF ss = <<>> THEN 0 ELSE Len(Head(ss)) + SumLen(Tail(ss))

SetMax(S) == CHOOSE m \in S : \A n \in S : n <= m
SetMin(S) == CHOOSE m \in S : \A n \in S : m <= n

\* Python's s[i:j] for 0 <= i, with 0-based i and j, clipped to the string.
Slice(s, i, j) ==
  LET hi == IF j > Len(s) THEN Len(s) ELSE j
  IN IF i >= hi THEN <<>> ELSE SubSeq(s, i + 1, hi)

\* utils.unique: the elements of a list in first-seen order.
RECURSIVE unique(_)
unique(s) ==
  IF s = <<>> THEN <<>>
  ELSE LET r == unique(SubSeq(s, 1, Len(s) - 1))
           x == s[Len(s)]
       IN IF x \in Range(r) THEN r ELSE Append(r, x)

\* ------------------------------------------------------------------------
\* Characters
\* ------------------------------------------------------------------------
LF == "\n"
CR == "\r"
SP == " "
LineBoundaries == {LF, CR}
Alphabet == {"a", "b", "c", "x", ".", SP, LF, CR}

RECURSIVE SeqsUpTo(_, _)
SeqsUpTo(S, n) ==
  IF n = 0 THEN {<<>>}
  ELSE LET shorter == SeqsUpTo(S, n - 1)
       IN shorter \cup {Append(s, x) : s \in {t \in shorter : Len(t) = n - 1}, x \in S}

Texts == SeqsUpTo(Alphabet, MaxTextLen)

\* str.splitlines(): a line ends at "\n", at "\r" or at "\r\n" (one boundary),
\* the boundary is not part of the line, and no empty last line is produced.
RECURSIVE SplitFrom(_, _, _)
SplitFrom(text, i, cur) ==
  IF i > Len(text) THEN (IF cur = <<>> THEN <<>> ELSE <<cur>>)
  ELSE IF text[i] = CR /\ i < Len(text) /\ text[i + 1] = LF
       THEN <<cur>> \o SplitFrom(text, i + 2, <<>>)
  ELSE IF text[i] \in LineBoundaries
       THEN <<cur>> \o SplitFrom(text, i + 1, <<>>)
  ELSE SplitFrom(text, i + 1, Append(cur, text[i]))

splitlines(text) == SplitFrom(text, 1, <<>>)

\* ------------------------------------------------------------------------
\* MeCab (the external tagger behind MecabTagger._mecab_tagger)
\* ------------------------------------------------------------------------
END_OF_SECTION_MARKER == <<"E", "O", "S">>
POS_SPLITTER == "-"
\* Six tags taken as unexpected.
EXPECTED_TOKEN_TAG_COUNTS_no_six == {4, 5}

EXPECTED_TOKEN_TAG_COUNTS == {4, 5, 6}
SYMBOL_PART_OF_SPEECH == "kigou"

\* One line of chasen output, split on tabs: surface form, reading, base form,
\* parts of speech, conjugated type, conjugated form.  MeCab always prints the
\* six columns and leaves the ones that do not apply empty.
\*   a  a noun
\*   b  a conjugated form of a
\*   c  a contracted form whose base form is the two-character word aa
\*   x  a word for which MeCab prints no reading
\*   .  a punctuation mark
MecabLine(ch) ==
  CASE ch = "a" -> << <<"a">>, <<"A">>, <<"a">>, <<"N", "-", "g">>, <<>>, <<>> >>
    [] ch = "b" -> << <<"b">>, <<"B">>, <<"a">>, <<"V", "-", "j">>, <<"g">>, <<"r">> >>
    [] ch = "c" -> << <<"c">>, <<"C">>, <<"a", "a">>, <<"N", "-", "s">>, <<"t">>, <<>> >>
    [] ch = "x" -> << <<"x">>, <<>>, <<"x">>, <<"N", "-", "g">>, <<>>, <<>> >>
    [] OTHER    -> << <<ch>>, <<ch>>, <<ch>>, <<SYMBOL_PART_OF_SPEECH, "-", "k">>, <<>>, <<>> >>

\* MeCab.Tagger.parse(text) in chasen format: one line per token, in text
\* order, then the EOS line.  MeCab drops the white space between tokens.
RECURSIVE MecabTokens(_)
MecabTokens(text) ==
  IF text = <<>> THEN <<>>
  ELSE IF Head(text) = SP THEN MecabTokens(Tail(text))
  ELSE <<MecabLine(Head(text))>> \o MecabTokens(Tail(text))

MecabOut(text) == Append(MecabTokens(text), <<END_OF_SECTION_MARKER>>)

\* ------------------------------------------------------------------------
\* MecabTagger
\* ------------------------------------------------------------------------
ADJUST_TAGS_KEY ==
  << <<"na">>, <<"NA">>, <<"da">>, <<"jodoushi">>, <<"tokushu-da">>, <<"taigen">> >>
ADJUST_TAGS_VALUE ==
  << <<"na">>, <<"NA">>, <<"na">>, <<"jodoushi">>, <<"tokushu-da">>, <<"taigen">> >>

\* Only the table of known problems, without the rule for a blank base form.
adjust_if_known_problem_table_only(tags) ==
  IF tags = ADJUST_TAGS_KEY THEN ADJUST_TAGS_VALUE ELSE tags

\* MecabTagger._adjust_if_known_problem
adjust_if_known_problem(tags) ==
  LET t1 == IF Len(tags) >= 4 /\ Len(tags[1]) > 0 /\ Len(tags[3]) = 0
            THEN [tags EXCEPT ![3] = tags[1]]
            ELSE tags
  IN IF t1 = ADJUST_TAGS_KEY THEN ADJUST_TAGS_VALUE ELSE t1

\* MecabTagger._parse_mecab_output: every non-empty line is split into its
\* columns, adjusted, and stripped of its empty columns.
RECURSIVE parse_mecab_output(_)
parse_mecab_output(output) ==
  IF output = <<>> THEN <<>>
  ELSE LET line == Head(output)
           rest == parse_mecab_output(Tail(output))
       IN IF Concat(line) = <<>> /\ Len(line) <= 1 THEN rest
          ELSE <<SelectSeq(adjust_if_known_problem(line), LAMBDA t : Len(t) > 0)>> \o rest

\* str.split(POS_SPLITTER)
RECURSIVE SplitPos(_, _)
SplitPos(s, cur) ==
  IF s = <<>> THEN <<cur>>
  ELSE IF Head(s) = POS_SPLITTER THEN <<cur>> \o SplitPos(Tail(s), <<>>)
  ELSE SplitPos(Tail(s), Append(cur, Head(s)))

MecabLexicalItemInterp(pos, ctype, cform) ==
  [parts_of_speech |-> pos, conjugated_type |-> ctype, conjugated_form |-> cform]

JpnLexicalItemInterp(mecab, entry_id, sources) ==
  [mecab_interp |-> mecab, jmdict_interp_entry_id |-> entry_id,
   interp_sources |-> sources]

\* The interp without its source.
create_mecab_interp_no_source(tags) ==
  JpnLexicalItemInterp(
    Some(MecabLexicalItemInterp(SplitPos(tags[4], <<>>), None, None)), None, <<>>)

\* MecabTagger._create_mecab_interp.  The second test is an "if", not an
\* "elif": it replaces the interp that the first one built.
create_mecab_interp(tags) ==
  LET parts_of_speech == SplitPos(tags[4], <<>>)
      first == IF Len(tags) >= 6
               THEN Some(MecabLexicalItemInterp(parts_of_speech, Some(tags[5]), Some(tags[6])))
               ELSE None
      mecab_interp ==
        IF Len(tags) >= 5
        THEN MecabLexicalItemInterp(parts_of_speech, Some(tags[5]), None)
        ELSE MecabLexicalItemInterp(parts_of_speech, None, None)
  IN JpnLexicalItemInterp(Some(mecab_interp), None, <<"MECAB">>)

ArticleTextPosition(start, length) == [start |-> start, length |-> length]

\* MecabTagger._create_found_lexical_item: the surface form is cached on the
\* item for its one position.
create_found_lexical_item(tags, interp, off) ==
  LET pos == ArticleTextPosition(off, Len(tags[1]))
  IN [base_form |-> tags[3],
      found_positions |-> <<pos>>,
      possible_interps |-> <<interp>>,
      surface_form_cache |-> {[pos |-> pos, surface_form |-> tags[1]]}]

\* The while loop of MecabTagger.parse that skips the white space MeCab
\* dropped: the first offset >= off at which the text reads surface.  Past the
\* end of the text the slice is empty and can never equal a token, so the loop
\* never ends: the result is then -1.
RECURSIVE AlignOffset(_, _, _)
AlignOffset(text, off, surface) ==
  IF Slice(text, off, off + Len(surface)) = surface THEN off
  ELSE IF off >= Len(text) THEN -1
  ELSE AlignOffset(text, off + 1, surface)

\* The for loop of MecabTagger.parse over the parsed tokens.
RECURSIVE ParseTokens(_, _, _, _, _)
ParseTokens(tokens, text, off, text_offset, found) ==
  IF tokens = <<>> THEN [error |-> None, flis |-> found]
  ELSE LET tags == Head(tokens)
       IN IF Len(tags) = 1 /\ tags[1] = END_OF_SECTION_MARKER
          THEN ParseTokens(Tail(tokens), text, off, text_offset, found)
          ELSE IF Len(tags) \notin EXPECTED_TOKEN_TAG_COUNTS
          THEN [error |-> Some("TextAnalysisError"), flis |-> <<>>]
          ELSE LET at == AlignOffset(text, off, tags[1])
               IN IF at < 0 THEN [error |-> Some("never returns"), flis |-> <<>>]
                  ELSE ParseTokens(Tail(tokens), text, at + Len(tags[1]), text_offset,
                         Append(found, create_found_lexical_item(
                                         tags, create_mecab_interp(tags), text_offset + at)))

\* MecabTagger.parse(text, text_offset)
parse(text, text_offset) ==
  ParseTokens(parse_mecab_output(MecabOut(text)), text, 0, text_offset, <<>>)

\* ------------------------------------------------------------------------
\* Insertion-ordered dicts: a sequence of [key, val] records, one per key, in
\* the order the keys were first inserted (a Python dict).
\* ------------------------------------------------------------------------
DictKeys(d) == {d[i].key : i \in 1..Len(d)}

DictGet(d, k, default) ==
  IF k \in DictKeys(d)
  THEN (d[CHOOSE i \in 1..Len(d) : d[i].key = k]).val
  ELSE default

\* defaultdict(list)[k].append(x)
DictAppend(d, k, x) ==
  IF k \in DictKeys(d)
  THEN [i \in 1..Len(d) |-> IF d[i].key = k
                            THEN [key |-> k, val |-> Append(d[i].val, x)]
                            ELSE d[i]]
  ELSE Append(d, [key |-> k, val |-> <<x>>])

\* d[k] = v
DictSet(d, k, v) ==
  IF k \in DictKeys(d)
  THEN [i \in 1..Len(d) |-> IF d[i].key = k THEN [key |-> k, val |-> v] ELSE d[i]]
  ELSE Append(d, [key |-> k, val |-> v])

\* d1 == d2 for Python dicts: the same keys with equal values, in any key order.
DictEq(d1, d2) ==
  /\ DictKeys(d1) = DictKeys(d2)
  /\ \A k \in DictKeys(d1) : DictGet(d1, k, <<>>) = DictGet(d2, k, <<>>)

\* ------------------------------------------------------------------------
\* JMdict XML files
\* ------------------------------------------------------------------------
\* A child element of an <entry>.  forms are the texts of its keb or reb
\* children, inf and pri those of its ke_inf/re_inf and ke_pri/re_pri children;
\* a sense has stag (stagk and stagr), pos, field, dial and misc children.
Element(tag) ==
  [tag |-> tag, text |-> <<>>, forms |-> <<>>, inf |-> <<>>, pri |-> <<>>,
   stag |-> <<>>, pos |-> <<>>, field |-> <<>>, dial |-> <<>>, misc |-> <<>>]

EntSeq(id) == [Element("ent_seq") EXCEPT !.text = id]
KEle(form) == [Element("k_ele") EXCEPT !.forms = <<form>>]
REle(form) == [Element("r_ele") EXCEPT !.forms = <<form>>]
Sense(stag, pos, misc) ==
  [Element("sense") EXCEPT !.stag = stag, !.pos = pos, !.misc = misc]

\* The XML documents of the model: the <entry> children of the root, each the
\* sequence of its child elements.
\*   d1     two records; aa is a text form of both, and aa and ab decompose
\*          into the same base forms
\*   d2     three records with text forms of one, two and three characters
\*   bad    a record with an unknown child element after a well-formed record
\*   d3     one record with a text form of one character
\*   empty  a root element without records
\* The files that get installed hold d1, d2 or bad; the second path only ever
\* holds d2.
XmlDocs == {"d1", "d2", "bad"}

XmlRoot(doc) ==
  CASE doc = "d1" ->
         << << EntSeq(<<"1">>), KEle(<<"a", "a">>), REle(<<"a", "b">>),
               Sense(<<>>, <<"n">>, <<>>) >>,
            << EntSeq(<<"2">>), KEle(<<"a", "a">>),
               Sense(<<>>, <<"v">>, <<"uk">>) >> >>
    [] doc = "d2" ->
         << << EntSeq(<<"3">>), KEle(<<"a", "b">>),
               Sense(<<>>, <<"n">>, <<>>) >>,
            << EntSeq(<<"4">>), REle(<<"c">>) >>,
            << EntSeq(<<"5">>), KEle(<<"a", "a">>), REle(<<"a", "a", "b">>),
               Sense(<<>>, <<"adj">>, <<"col">>),
               Sense(<< <<"a", "a">> >>, <<"n">>, <<>>) >> >>
    [] doc = "d3" ->
         << << EntSeq(<<"8">>), REle(<<"a">>), Sense(<<>>, <<"n">>, <<>>) >> >>
    [] doc = "bad" ->
         << << EntSeq(<<"6">>), KEle(<<"a", "a", "b">>) >>,
            << EntSeq(<<"7">>), KEle(<<"a", "a">>), Element("gloss") >> >>
    [] OTHER -> <<>>

\* ------------------------------------------------------------------------
\* JMdict: parsing the XML
\* ------------------------------------------------------------------------
JMdictEntry(entry_id, text_form, info, freq) ==
  [entry_id |-> entry_id, text_form |-> text_form,
   text_form_info |-> info, text_form_freq |-> freq,
   parts_of_speech |-> None, fields |-> None, dialects |-> None, misc |-> None]

JMdictSense(e) ==
  [applicable_elements |-> e.stag, parts_of_speech |-> e.pos,
   fields |-> e.field, dialects |-> e.dial, misc |-> e.misc]

REPR_ELEMENT_TAGS == {"k_ele", "r_ele"}
SENSE_ELEMENT_TAG == "sense"
ENTRY_ID_TAG == "ent_seq"

\* A tuple attribute that _append_to_tuple_attr never touched stays None.
TupleAttr(texts) == IF texts = <<>> THEN None ELSE Some(texts)

\* Every sense taken as applying to every entry.
add_sense_data_all(entry, senses) ==
  IF senses = <<>> THEN entry
  ELSE [entry EXCEPT !.parts_of_speech = TupleAttr(senses[Len(senses)].parts_of_speech),
                     !.fields = TupleAttr(senses[Len(senses)].fields),
                     !.dialects = TupleAttr(senses[Len(senses)].dialects),
                     !.misc = TupleAttr(senses[Len(senses)].misc)]

\* JMdict._add_sense_data for one entry: the senses in order, each applicable
\* one overwriting the four annotations.
RECURSIVE add_sense_data(_, _)
add_sense_data(entry, senses) ==
  IF senses = <<>> THEN entry
  ELSE LET sense == Head(senses)
           skip == /\ Len(sense.applicable_elements) > 0
                   /\ entry.text_form \notin Range(sense.applicable_elements)
       IN add_sense_data(
            IF skip THEN entry
            ELSE [entry EXCEPT !.parts_of_speech = TupleAttr(sense.parts_of_speech),
                               !.fields = TupleAttr(sense.fields),
                               !.dialects = TupleAttr(sense.dialects),
                               !.misc = TupleAttr(sense.misc)],
            Tail(senses))

\* The ent_seq children of a record, and whether a list of element texts
\* holds one without accessible text.
EntSeqTexts(record) ==
  SelectSeq(record, LAMBDA e : e.tag = ENTRY_ID_TAG)
HasNoText(texts) == \E i \in 1..Len(texts) : Len(texts[i]) = 0

\* The for loop of JMdict._parse_entry_xml over the children of a record:
\* [error, reprs, senses].
RECURSIVE ParseElements(_, _, _, _)
ParseElements(record, i, reprs, senses) ==
  IF i > Len(record) THEN [error |-> None, reprs |-> reprs, senses |-> senses]
  ELSE LET e == record[i]
           ids == EntSeqTexts(record)
       IN IF e.tag \in REPR_ELEMENT_TAGS
          THEN IF \/ ids = <<>> \/ \E k \in 1..Len(ids) : Len(ids[k].text) = 0
                  \/ e.forms = <<>> \/ HasNoText(e.forms)
                  \/ HasNoText(e.inf) \/ HasNoText(e.pri)
               THEN [error |-> Some("ResourceLoadError"), reprs |-> reprs, senses |-> senses]
               ELSE ParseElements(record, i + 1,
                      Append(reprs, JMdictEntry(ids[Len(ids)].text, e.forms[Len(e.forms)],
                                                TupleAttr(e.inf), TupleAttr(e.pri))),
                      senses)
          ELSE IF e.tag = SENSE_ELEMENT_TAG
          THEN IF \/ HasNoText(e.stag) \/ HasNoText(e.pos) \/ HasNoText(e.field)
                  \/ HasNoText(e.dial) \/ HasNoText(e.misc)
               THEN [error |-> Some("ResourceLoadError"), reprs |-> reprs, senses |-> senses]
               ELSE ParseElements(record, i + 1, reprs, Append(senses, JMdictSense(e)))
          ELSE IF e.tag # ENTRY_ID_TAG
          THEN [error |-> Some("ResourceLoadError"), reprs |-> reprs, senses |-> senses]
          ELSE ParseElements(record, i + 1, reprs, senses)

\* JMdict._parse_entry_xml: [error, entries]
parse_entry_xml(record) ==
  LET r == ParseElements(record, 1, <<>>, <<>>)
  IN IF ~IsNone(r.error) THEN [error |-> r.error, entries |-> <<>>]
     ELSE [error |-> None,
           entries |-> [k \in 1..Len(r.reprs) |-> add_sense_data(r.reprs[k], r.senses)]]

\* JMdict._get_mecab_decomb: the base forms MecabTagger.parse finds in the
\* text form of the entry.
get_mecab_decomb(entry) ==
  LET flis == parse(entry.text_form, 0).flis
  IN [k \in 1..Len(flis) |-> flis[k].base_form]

\* The inner for loop of load_jmdict: the entries of one record are appended to
\* both maps.
RECURSIVE AddEntries(_, _, _)
AddEntries(entries, entry_map, decomp_map) ==
  IF entries = <<>> THEN [entry_map |-> entry_map, mecab_decomp_map |-> decomp_map]
  ELSE LET e == Head(entries)
       IN AddEntries(Tail(entries),
                     DictAppend(entry_map, e.text_form, e),
                     DictAppend(decomp_map, get_mecab_decomb(e), e))

\* The for loop of load_jmdict over the records of the root: [error, entry_map,
\* mecab_decomp_map], the maps as they are when the loop ends or raises.
RECURSIVE LoadRecords(_, _, _)
LoadRecords(records, entry_map, decomp_map) ==
  IF records = <<>>
  THEN [error |-> None, entry_map |-> entry_map, mecab_decomp_map |-> decomp_map]
  ELSE LET r == parse_entry_xml(Head(records))
       IN IF ~IsNone(r.error)
          THEN [error |-> r.error, entry_map |-> entry_map, mecab_decomp_map |-> decomp_map]
          ELSE LET m == AddEntries(r.entries, entry_map, decomp_map)
               IN LoadRecords(Tail(records), m.entry_map, m.mecab_decomp_map)

\* ------------------------------------------------------------------------
\* JMdict: the object, its accessors and the shelf
\* ------------------------------------------------------------------------
\* JMdict.__init__ without an XML file path
FreshJMdict ==
  [entry_map |-> None, mecab_decomp_map |-> None,
   max_text_form_len |-> None, max_mecab_decomp_len |-> None]

Raised(e) == [error |-> Some(e), value |-> None]
Returned(v) == [error |-> None, value |-> Some(v)]

\* A key of contains_entry and get_entries: a str or a tuple of str.
StrKey(s) == [kind |-> "str", k |-> s]
TupleKey(t) == [kind |-> "tuple", k |-> t]

\* JMdict.max_text_form_len
max_text_form_len(st) ==
  IF IsNone(st.max_text_form_len) THEN Raised("ResourceNotReadyError")
  ELSE Returned(Val(st.max_text_form_len))

\* JMdict.max_mecab_decomp_len
max_mecab_decomp_len(st) ==
  IF IsNone(st.max_mecab_decomp_len) THEN Raised("ResourceNotReadyError")
  ELSE Returned(Val(st.max_mecab_decomp_len))

\* JMdict.contains_entry
contains_entry(st, entry) ==
  IF IsNone(st.entry_map) \/ IsNone(st.mecab_decomp_map)
  THEN Raised("ResourceNotReadyError")
  ELSE IF entry.kind = "str"
       THEN Returned(entry.k \in DictKeys(Val(st.entry_map)))
       ELSE Returned(entry.k \in DictKeys(Val(st.mecab_decomp_map)))

\* JMdict.get_entries
get_entries(st, entry) ==
  IF IsNone(st.entry_map) \/ IsNone(st.mecab_decomp_map)
  THEN Raised("ResourceNotReadyError")
  ELSE IF entry.kind = "str"
       THEN Returned(DictGet(Val(st.entry_map), entry.k, <<>>))
       ELSE Returned(DictGet(Val(st.mecab_decomp_map), entry.k, <<>>))

\* min in the place of max.
MaxKeyLen_min(d) == SetMin({Len(k) : k \in DictKeys(d)})

\* max(len(k) for k in d.keys()); ValueError on an empty dict.
MaxKeyLen(d) == SetMax({Len(k) : k \in DictKeys(d)})

\* JMdict._set_max_entry_lens: [error, store]
set_max_entry_lens(st) ==
  IF DictKeys(Val(st.entry_map)) = {} THEN [error |-> Some("ValueError"), store |-> st]
  ELSE LET st1 == [st EXCEPT !.max_text_form_len = Some(MaxKeyLen(Val(st.entry_map)))]
       IN IF DictKeys(Val(st.mecab_decomp_map)) = {}
          THEN [error |-> Some("ValueError"), store |-> st1]
          ELSE [error |-> None,
                store |-> [st1 EXCEPT !.max_mecab_decomp_len =
                                         Some(MaxKeyLen(Val(st.mecab_decomp_map)))]]

\* The shelf file: shelve.open(path, 'n') creates it without any key, and the
\* value of the key '_mecab_decomp_map_items' is data.
NoShelf == [exists |-> FALSE, data |-> None, mtime |-> 0]

\* "<" in the place of "<=": a shelf as old as the XML file is loaded too.
ShelfIsNewer_or_equal(sh, comp_timestamp) ==
  /\ sh.exists
  /\ ~(sh.mtime < comp_timestamp)

\* The test of _load_from_shelf_if_newer that the shelf is to be loaded.
ShelfIsNewer(sh, comp_timestamp) ==
  /\ sh.exists
  /\ ~(sh.mtime <= comp_timestamp)

\* The entries of one list put into the entry map last to first.
RECURSIVE AppendByTextForm_reversed(_, _)
AppendByTextForm_reversed(entry_map, entry_list) ==
  IF entry_list = <<>> THEN entry_map
  ELSE AppendByTextForm_reversed(
         DictAppend(entry_map, entry_list[Len(entry_list)].text_form,
                    entry_list[Len(entry_list)]),
         SubSeq(entry_list, 1, Len(entry_list) - 1))

\* self._entry_map[entry.text_form].append(entry) for the entries of one list
RECURSIVE AppendByTextForm(_, _)
AppendByTextForm(entry_map, entry_list) ==
  IF entry_list = <<>> THEN entry_map
  ELSE AppendByTextForm(
         DictAppend(entry_map, Head(entry_list).text_form, Head(entry_list)),
         Tail(entry_list))

\* The for loop of _load_from_shelf_if_newer over the stored items.
RECURSIVE LoadItems(_, _, _)
LoadItems(map_items, entry_map, decomp_map) ==
  IF map_items = <<>> THEN [entry_map |-> entry_map, mecab_decomp_map |-> decomp_map]
  ELSE LoadItems(Tail(map_items),
                 AppendByTextForm(entry_map, Head(map_items).val),
                 DictSet(decomp_map, Head(map_items).key, Head(map_items).val))

\* The body of the "with shelve.open(shelf_path, 'r')" block and the call of
\* _set_max_entry_lens after it: [error, store].
load_from_shelf(st, sh) ==
  LET st0 == [st EXCEPT !.entry_map = Some(<<>>), !.mecab_decomp_map = Some(<<>>)]
  IN IF IsNone(sh.data) THEN [error |-> Some("KeyError"), store |-> st0]
     ELSE LET m == LoadItems(Val(sh.data), <<>>, <<>>)
          IN set_max_entry_lens([st0 EXCEPT !.entry_map = Some(m.entry_map),
                                            !.mecab_decomp_map = Some(m.mecab_decomp_map)])

\* The dictionaries the analyzer is run with: JMdict(jmdict_xml_filepath) on
\* a well-formed XML file.
AnalyzerDocs == {"d1", "d2", "d3"}

\* The maps that the for loop of load_jmdict builds from each document.
LoadedRecords ==
  [doc \in XmlDocs \cup AnalyzerDocs \cup {"empty"} |-> LoadRecords(XmlRoot(doc), <<>>, <<>>)]

\* load_jmdict from "tree = ElementTree.parse(xml_filepath)" to the call of
\* _set_max_entry_lens: [error, store].
load_from_xml(st, doc) ==
  LET r == LoadedRecords[doc]
      st1 == [st EXCEPT !.entry_map = Some(r.entry_map),
                        !.mecab_decomp_map = Some(r.mecab_decomp_map)]
  IN IF ~IsNone(r.error) THEN [error |-> r.error, store |-> st1]
     ELSE set_max_entry_lens(st1)

\* list(self._mecab_decomp_map.items())
ShelfItems(st) == Val(st.mecab_decomp_map)

\* ------------------------------------------------------------------------
\* JapaneseTextAnalyzer
\* ------------------------------------------------------------------------
\* FoundJpnLexicalItem.get_first_surface_form: the surface form cached for
\* the first position of the item.
get_first_surface_form(fli) ==
  (CHOOSE c \in fli.surface_form_cache : c.pos = fli.found_positions[1]).surface_form

BaseForms(flis) == [k \in 1..Len(flis) |-> flis[k].base_form]
SurfaceForms(flis) == [k \in 1..Len(flis) |-> get_first_surface_form(flis[k])]

\* self._jmdict[key]
JMdictGetItem(jm, key) == Val(get_entries(jm, key).value)

\* Every series of items taken as within the maximum lengths.
within_jmdict_max_entry_len_always(flis, jm) == TRUE

\* "<" in the place of "<=" in the three tests.
within_jmdict_max_entry_len_less(flis, jm) ==
  \/ Len(flis) < Val(max_mecab_decomp_len(jm).value)
  \/ SumLen(BaseForms(flis)) < Val(max_text_form_len(jm).value)
  \/ SumLen(SurfaceForms(flis)) < Val(max_text_form_len(jm).value)

\* JapaneseTextAnalyzer._within_jmdict_max_entry_len
within_jmdict_max_entry_len(flis, jm) ==
  \/ Len(flis) <= Val(max_mecab_decomp_len(jm).value)
  \/ SumLen(BaseForms(flis)) <= Val(max_text_form_len(jm).value)
  \/ SumLen(SurfaceForms(flis)) <= Val(max_text_form_len(jm).value)

\* Every entry given all three sources.
InterpSources_all(entry, decomp_entries, surface_entries, base_entries) ==
  <<"JMDICT_MECAB_DECOMP", "JMDICT_SURFACE_FORM", "JMDICT_BASE_FORM">>

\* The sources of the interp that _lookup_meta_lexical_item builds for an entry.
InterpSources(entry, decomp_entries, surface_entries, base_entries) ==
  (IF entry \in Range(decomp_entries) THEN <<"JMDICT_MECAB_DECOMP">> ELSE <<>>)
  \o (IF entry \in Range(surface_entries) THEN <<"JMDICT_SURFACE_FORM">> ELSE <<>>)
  \o (IF entry \in Range(base_entries) THEN <<"JMDICT_BASE_FORM">> ELSE <<>>)

\* JapaneseTextAnalyzer._lookup_meta_lexical_item
lookup_meta_lexical_item(base_decomp, jm) ==
  LET decomp_base_forms == BaseForms(base_decomp)
      decomp_entries == JMdictGetItem(jm, TupleKey(decomp_base_forms))
      surface_form == Concat(SurfaceForms(base_decomp))
      surface_entries == JMdictGetItem(jm, StrKey(surface_form))
      base_form == Concat(decomp_base_forms)
      base_entries == JMdictGetItem(jm, StrKey(base_form))
      entries == unique(decomp_entries \o surface_entries \o base_entries)
  IN IF decomp_entries = <<>> /\ surface_entries = <<>> /\ base_entries = <<>>
     THEN <<>>
     ELSE [k \in 1..Len(entries) |->
             [base_form |-> entries[k].text_form,
              found_positions |->
                <<ArticleTextPosition(base_decomp[1].found_positions[1].start,
                                      Len(surface_form))>>,
              possible_interps |->
                <<JpnLexicalItemInterp(
                    None, Some(entries[k].entry_id),
                    InterpSources(entries[k], decomp_entries, surface_entries, base_entries))>>,
              surface_form_cache |-> {}]]

\* The inner while loop of _find_meta_lexical_items, from the window
\* base_lexical_items[start:end + 1] (both 0-based) on.
RECURSIVE MetaItemsFrom(_, _, _, _)
MetaItemsFrom(base_lexical_items, start, end, jm) ==
  IF ~(end < Len(base_lexical_items)) THEN <<>>
  ELSE LET decomp == SubSeq(base_lexical_items, start + 1, end + 1)
       IN IF ~within_jmdict_max_entry_len(decomp, jm) THEN <<>>
          ELSE lookup_meta_lexical_item(decomp, jm)
               \o MetaItemsFrom(base_lexical_items, start, end + 1, jm)

\* The outer while loop of _find_meta_lexical_items.
RECURSIVE MetaItemsLoop(_, _, _)
MetaItemsLoop(base_lexical_items, start, jm) ==
  IF ~(start < Len(base_lexical_items)) THEN <<>>
  ELSE MetaItemsFrom(base_lexical_items, start, start + 1, jm)
       \o MetaItemsLoop(base_lexical_items, start + 1, jm)

\* JapaneseTextAnalyzer._find_meta_lexical_items
find_meta_lexical_items(base_lexical_items, jm) ==
  MetaItemsLoop(base_lexical_items, 0, jm)

\* The windows decomp = base_lexical_items[start:end + 1] that the inner while
\* loop of _find_meta_lexical_items hands to _lookup_meta_lexical_item, in the
\* order of the calls.
RECURSIVE LookupWindowsFrom(_, _, _, _)
LookupWindowsFrom(base_lexical_items, start, end, jm) ==
  IF ~(end < Len(base_lexical_items)) THEN <<>>
  ELSE LET decomp == SubSeq(base_lexical_items, start + 1, end + 1)
       IN IF ~within_jmdict_max_entry_len(decomp, jm) THEN <<>>
          ELSE <<decomp>> \o LookupWindowsFrom(base_lexical_items, start, end + 1, jm)

\* The same for the outer while loop.
RECURSIVE LookupWindowsLoop(_, _, _)
LookupWindowsLoop(base_lexical_items, start, jm) ==
  IF ~(start < Len(base_lexical_items)) THEN <<>>
  ELSE LookupWindowsFrom(base_lexical_items, start, start + 1, jm)
       \o LookupWindowsLoop(base_lexical_items, start + 1, jm)

\* JapaneseTextAnalyzer._is_symbol
is_symbol(fli) ==
  \E i \in 1..Len(fli.possible_interps) :
    /\ ~IsNone(fli.possible_interps[i].mecab_interp)
    /\ \E j \in 1..Len(Val(fli.possible_interps[i].mecab_interp).parts_of_speech) :
         Val(fli.possible_interps[i].mecab_interp).parts_of_speech[j]
           = <<SYMBOL_PART_OF_SPEECH>>

\* JapaneseTextAnalyzer._find_lexical_items: [error, flis]
find_lexical_items(text, off, jm) ==
  LET parsed == parse(text, off)
      mecab_lexical_items == parsed.flis
      meta_lexical_items == find_meta_lexical_items(mecab_lexical_items, jm)
      found_lexical_items == mecab_lexical_items \o meta_lexical_items
  IN IF ~IsNone(parsed.error) THEN [error |-> parsed.error, flis |-> <<>>]
     ELSE [error |-> None,
           flis |-> SelectSeq(found_lexical_items, LAMBDA item : ~is_symbol(item))]

\* ------------------------------------------------------------------------
\* myaku.datatypes.reduce_found_lexical_items
\* ------------------------------------------------------------------------
\* The interps of a group, an interp that is already there (the same MeCab
\* interp and the same JMdict entry) taking the union of the sources.
RECURSIVE UnionInterps(_, _)
UnionInterps(acc, interps) ==
  IF interps = <<>> THEN acc
  ELSE LET x == Head(interps)
           Same(y) == /\ y.mecab_interp = x.mecab_interp
                      /\ y.jmdict_interp_entry_id = x.jmdict_interp_entry_id
           merged ==
             IF \E i \in 1..Len(acc) : Same(acc[i])
             THEN [i \in 1..Len(acc) |->
                     IF Same(acc[i])
                     THEN [acc[i] EXCEPT !.interp_sources =
                                           unique(acc[i].interp_sources \o x.interp_sources)]
                     ELSE acc[i]]
             ELSE Append(acc, x)
       IN UnionInterps(merged, Tail(interps))

\* The items with one base form, merged into one: the positions concatenated
\* in the order of the list, the interps united.
MergeGroup(base_form, flis) ==
  LET group == SelectSeq(flis, LAMBDA f : f.base_form = base_form)
  IN [base_form |-> base_form,
      found_positions |-> Concat([k \in 1..Len(group) |-> group[k].found_positions]),
      possible_interps |->
        UnionInterps(<<>>, Concat([k \in 1..Len(group) |-> group[k].possible_interps])),
      surface_form_cache |-> UNION {group[k].surface_form_cache : k \in 1..Len(group)}]

reduce_found_lexical_items(flis) ==
  LET base_forms == unique(BaseForms(flis))
  IN [k \in 1..Len(base_forms) |-> MergeGroup(base_forms[k], flis)]

\* find_article_lexical_items returning the list as the blocks gave it.
ReducedItems_unreduced(article_lexical_items) ==
  article_lexical_items

\* The end of find_article_lexical_items: the list of all blocks is reduced
\* and returned.
ReducedItems(article_lexical_items) ==
  reduce_found_lexical_items(article_lexical_items)

\* ------------------------------------------------------------------------
\* The dictionary store and its files as a state machine
\* ------------------------------------------------------------------------
Paths == {"p1", "p2"}
DocsAt(p) == IF p = "p1" THEN XmlDocs ELSE {"d2"}
NoXml == [exists |-> FALSE, doc |-> "empty", mtime |-> 0]
AccessorOps == {"max_text_form_len", "max_mecab_decomp_len", "contains_entry", "get_entries"}
QueryKeys == {StrKey(<<"a", "a">>), TupleKey(<< <<"a">>, <<"a">> >>)}

\* A call on the JMdict object: for load_jmdict, its argument, where the data
\* came from ("shelf" or "xml") and how the call ended ("running", "returned"
\* or "raised").
NoCall == [op |-> "none", path |-> "", source |-> "", outcome |-> "", error |-> ""]

\* What an accessor does on the store st.
Access(op, st, key) ==
  CASE op = "max_text_form_len" -> max_text_form_len(st)
    [] op = "max_mecab_decomp_len" -> max_mecab_decomp_len(st)
    [] op = "contains_entry" -> contains_entry(st, key)
    [] OTHER -> get_entries(st, key)

ParseIdle ==
  /\ ppc = "unused"
  /\ parse_text = <<>>
  /\ parse_text_offset = 0
  /\ parse_mecab_out = <<>>
  /\ parse_tokens = <<>>
  /\ parse_offset = 0
  /\ parse_found = <<>>

\* run_tests.py is not running.
RunTestsIdle ==
  /\ spc = "unused"
  /\ use_existing_images = "None"
  /\ waited_secs = 0
  /\ all_running = None
  /\ polls = 0
  /\ trace = <<>>
  /\ exc = None
  /\ tpc = "unused"
  /\ docker_objs = <<>>
  /\ todo = <<>>
  /\ attempted = {}
  /\ warned = {}

AnalyzerIdle ==
  /\ apc = "unused"
  /\ full_text = <<>>
  /\ jmdict = FreshJMdict
  /\ blocks = <<>>
  /\ offset = 0
  /\ items = <<>>
  /\ result = None
  /\ lookups = {}
  /\ prev = None

DictInit ==
  /\ pc = "idle"
  /\ store = FreshJMdict
  /\ xml = [p \in Paths |-> NoXml]
  /\ shelf = NoShelf
  /\ clock = 0
  /\ last = NoCall
  /\ loadedOk = FALSE
  /\ shelfFrom = FreshJMdict
  /\ AnalyzerIdle
  /\ ParseIdle
  /\ RunTestsIdle

\* Time passes on the file system's clock.
Tick ==
  /\ clock < MaxClock
  /\ clock' = clock + 1
  /\ UNCHANGED <<pc, store, xml, shelf, last, loadedOk, shelfFrom>>
  /\ UNCHANGED <<avars, pvars, svars, tvars>>

\* Somebody installs a JMdict XML file at path p.
WriteXml(p, doc) ==
  /\ pc = "idle"
  /\ xml' = [xml EXCEPT ![p] = [exists |-> TRUE, doc |-> doc, mtime |-> clock]]
  /\ UNCHANGED <<pc, store, shelf, clock, last, loadedOk, shelfFrom>>
  /\ UNCHANGED <<avars, pvars, svars, tvars>>

\* A new process constructs its JMdict object: JMdict().
NewJMdict ==
  /\ pc = "idle"
  /\ store' = FreshJMdict
  /\ loadedOk' = FALSE
  /\ last' = NoCall
  /\ UNCHANGED <<pc, xml, shelf, clock, shelfFrom>>
  /\ UNCHANGED <<avars, pvars, svars, tvars>>

\* JMdict.load_jmdict(p), up to its return, its exception or its call of
\* _write_to_shelf.
LoadJmdict(p) ==
  /\ pc = "idle"
  /\ LET call == [NoCall EXCEPT !.op = "load_jmdict", !.path = p]
     IN IF ~xml[p].exists
        THEN \* os.path.getmtime(xml_filepath)
             /\ last' = [call EXCEPT !.outcome = "raised", !.error = "FileNotFoundError"]
             /\ UNCHANGED <<pc, store, loadedOk>>
        ELSE IF ShelfIsNewer(shelf, xml[p].mtime)
        THEN LET r == load_from_shelf(store, shelf)
             IN /\ store' = r.store
                /\ last' = IF IsNone(r.error)
                           THEN [call EXCEPT !.source = "shelf", !.outcome = "returned"]
                           ELSE [call EXCEPT !.source = "shelf", !.outcome = "raised",
                                             !.error = Val(r.error)]
                /\ loadedOk' = (loadedOk \/ IsNone(r.error))
                /\ UNCHANGED pc
        ELSE IF ~xml[p].exists
        THEN \* the test of os.path.exists(xml_filepath)
             /\ last' = [call EXCEPT !.outcome = "raised", !.error = "ResourceLoadError"]
             /\ UNCHANGED <<pc, store, loadedOk>>
        ELSE LET r == load_from_xml(store, xml[p].doc)
             IN /\ store' = r.store
                /\ IF IsNone(r.error)
                   THEN /\ last' = [call EXCEPT !.source = "xml", !.outcome = "running"]
                        /\ pc' = "write_open"
                   ELSE /\ last' = [call EXCEPT !.source = "xml", !.outcome = "raised",
                                                !.error = Val(r.error)]
                        /\ UNCHANGED pc
                /\ UNCHANGED loadedOk
  /\ UNCHANGED <<xml, shelf, clock, shelfFrom>>
  /\ UNCHANGED <<avars, pvars, svars, tvars>>

\* _write_to_shelf: shelve.open(shelf_path, 'n') puts a new, empty shelf file
\* in the place of the old one.
WriteShelfOpen ==
  /\ pc = "write_open"
  /\ shelf' = [exists |-> TRUE, data |-> None, mtime |-> clock]
  /\ pc' = "write_store"
  /\ UNCHANGED <<store, xml, clock, last, loadedOk, shelfFrom>>
  /\ UNCHANGED <<avars, pvars, svars, tvars>>

\* _write_to_shelf: the items are stored and the shelf is closed; load_jmdict
\* returns.
WriteShelfStore ==
  /\ pc = "write_store"
  /\ shelf' = [exists |-> TRUE, data |-> Some(ShelfItems(store)), mtime |-> clock]
  /\ shelfFrom' = store
  /\ pc' = "idle"
  /\ last' = [last EXCEPT !.outcome = "returned"]
  /\ loadedOk' = TRUE
  /\ UNCHANGED <<store, xml, clock>>
  /\ UNCHANGED <<avars, pvars, svars, tvars>>

\* _write_to_shelf fails (the directory cannot be written, the disk is full):
\* shelve.open or the store raises, and nothing catches the exception.
WriteShelfFails ==
  /\ pc \in {"write_open", "write_store"}
  /\ pc' = "idle"
  /\ last' = [last EXCEPT !.outcome = "raised", !.error = "write failed"]
  /\ UNCHANGED <<store, xml, shelf, clock, loadedOk, shelfFrom>>
  /\ UNCHANGED <<avars, pvars, svars, tvars>>

\* One of the accessors is called on the JMdict object.
Query(op, key) ==
  /\ pc = "idle"
  /\ LET r == Access(op, store, key)
     IN last' = [NoCall EXCEPT !.op = op,
                               !.outcome = IF IsNone(r.error) THEN "returned" ELSE "raised",
                               !.error = IF IsNone(r.error) THEN "" ELSE Val(r.error)]
  /\ UNCHANGED <<pc, store, xml, shelf, clock, loadedOk, shelfFrom>>
  /\ UNCHANGED <<avars, pvars, svars, tvars>>

DictNext ==
  \/ Tick
  \/ \E p \in Paths : \E doc \in DocsAt(p) : WriteXml(p, doc)
  \/ NewJMdict
  \/ \E p \in Paths : LoadJmdict(p)
  \/ WriteShelfOpen
  \/ WriteShelfStore
  \/ WriteShelfFails
  \/ \E op \in AccessorOps, key \in QueryKeys : Query(op, key)

SpecDict == DictInit /\ [][DictNext]_vars

\* ------------------------------------------------------------------------
\* find_article_lexical_items as a state machine
\* ------------------------------------------------------------------------
DictIdle ==
  /\ pc = "idle"
  /\ store = FreshJMdict
  /\ xml = [p \in Paths |-> NoXml]
  /\ shelf = NoShelf
  /\ clock = 0
  /\ last = NoCall
  /\ loadedOk = FALSE
  /\ shelfFrom = FreshJMdict

AnalyzeInit ==
  /\ apc = "call"
  /\ full_text \in Texts
  /\ jmdict \in {load_from_xml(FreshJMdict, doc).store : doc \in AnalyzerDocs}
  /\ blocks = <<>>
  /\ offset = 0
  /\ items = <<>>
  /\ result = None
  /\ lookups = {}
  /\ prev = None
  /\ DictIdle
  /\ ParseIdle
  /\ RunTestsIdle

\* The call starting with the offset and the list an earlier call left.
SplitArticle_keeps_locals ==
  /\ apc = "call"
  /\ blocks' = splitlines(full_text)
  /\ apc' = "loop"
  /\ UNCHANGED <<offset, items, lookups, full_text, jmdict, result, prev>>
  /\ UNCHANGED <<dvars, pvars, svars, tvars>>

\* article_blocks = article.full_text.splitlines(); offset = 0
SplitArticle ==
  /\ apc = "call"
  /\ blocks' = splitlines(full_text)
  /\ offset' = 0
  /\ items' = <<>>
  /\ apc' = "loop"
  /\ lookups' = {}
  /\ UNCHANGED <<full_text, jmdict, result, prev>>
  /\ UNCHANGED <<dvars, pvars, svars, tvars>>

\* One turn of the for loop on an empty block.
SkipEmptyBlock ==
  /\ apc = "loop"
  /\ blocks # <<>>
  /\ Len(Head(blocks)) = 0
  /\ offset' = offset + 1
  /\ blocks' = Tail(blocks)
  /\ UNCHANGED <<apc, full_text, jmdict, items, result, lookups, prev>>
  /\ UNCHANGED <<dvars, pvars, svars, tvars>>

\* One turn of the for loop on a block with text.
FindBlockItems ==
  /\ apc = "loop"
  /\ blocks # <<>>
  /\ Len(Head(blocks)) # 0
  /\ LET r == find_lexical_items(Head(blocks), offset, jmdict)
     IN IF ~IsNone(r.error)
        THEN /\ apc' = "raised"
             /\ UNCHANGED <<blocks, offset, items, lookups>>
        ELSE /\ items' = items \o r.flis
             /\ offset' = offset + Len(Head(blocks)) + 1
             /\ blocks' = Tail(blocks)
             /\ lookups' = lookups \cup
                   Range(LookupWindowsLoop(parse(Head(blocks), offset).flis, 0, jmdict))
             /\ UNCHANGED apc
  /\ UNCHANGED <<full_text, jmdict, result, prev>>
  /\ UNCHANGED <<dvars, pvars, svars, tvars>>

\* The for loop is over: the items are reduced and returned.
ReturnReduced ==
  /\ apc = "loop"
  /\ blocks = <<>>
  /\ result' = Some(ReducedItems(items))
  /\ apc' = "returned"
  /\ UNCHANGED <<full_text, jmdict, blocks, offset, items, lookups, prev>>
  /\ UNCHANGED <<dvars, pvars, svars, tvars>>

\* The caller calls find_article_lexical_items once more on the same article,
\* with the same analyzer; what the first call returned is kept in prev.
CallAgain ==
  /\ apc = "returned"
  /\ prev = None
  /\ prev' = result
  /\ result' = None
  /\ apc' = "call"
  /\ UNCHANGED <<full_text, jmdict, blocks, offset, items, lookups>>
  /\ UNCHANGED <<dvars, pvars, svars, tvars>>

AnalyzeNext ==
  \/ SplitArticle
  \/ SkipEmptyBlock
  \/ FindBlockItems
  \/ ReturnReduced
  \/ CallAgain

SpecAnalyze == AnalyzeInit /\ [][AnalyzeNext]_vars

\* ------------------------------------------------------------------------
\* MecabTagger.parse as a state machine, on any text and any MeCab output
\* ------------------------------------------------------------------------
\* The characters of the texts: a letter, the character of the known problem
\* of _ADJUST_TAGS_MAP, and white space.
ParseAlphabet == {"a", "na", SP}
ParseTexts == SeqsUpTo(ParseAlphabet, MaxParseTextLen)
ParseTextOffsets == {0, 2}

\* Lines of chasen output, split on tabs, that MeCab can print for a token:
\* with and without conjugation columns, without a reading, without a base
\* form, and the line of the known problem.
MecabLines ==
  { << <<"a">>, <<"A">>, <<"a">>, <<"N", "-", "g">>, <<>>, <<>> >>,
    << <<"a">>, <<"A">>, <<"b">>, <<"V", "-", "j">>, <<"g">>, <<"r">> >>,
    << <<"a">>, <<"A">>, <<"a">>, <<"V", "-", "j">>, <<"g">>, <<>> >>,
    << <<"a">>, <<>>, <<"b">>, <<"V", "-", "j">>, <<"g">>, <<"r">> >>,
    << <<"a">>, <<>>, <<"a">>, <<"N", "-", "g">>, <<>>, <<>> >>,
    << <<"a">>, <<"A">>, <<>>, <<"N", "-", "g">>, <<>>, <<>> >>,
    ADJUST_TAGS_KEY }

\* What self._mecab_tagger.parse(text) can give: lines of tokens, then EOS.
MecabOutputs ==
  {Append(ls, <<END_OF_SECTION_MARKER>>) : ls \in SeqsUpTo(MecabLines, MaxParseLines)}

ParseInit ==
  /\ ppc = "call"
  /\ parse_text \in ParseTexts
  /\ parse_text_offset \in ParseTextOffsets
  /\ parse_mecab_out \in MecabOutputs
  /\ parse_tokens = <<>>
  /\ parse_offset = 0
  /\ parse_found = <<>>
  /\ AnalyzerIdle
  /\ DictIdle
  /\ RunTestsIdle

\* parsed_tokens = self._parse_mecab_output(mecab_out); offset = 0;
\* found_lexical_items = []
ParseOutput ==
  /\ ppc = "call"
  /\ parse_tokens' = parse_mecab_output(parse_mecab_out)
  /\ parse_offset' = 0
  /\ parse_found' = <<>>
  /\ ppc' = "loop"
  /\ UNCHANGED <<parse_text, parse_text_offset, parse_mecab_out>>
  /\ UNCHANGED <<avars, dvars, svars, tvars>>

IsEndOfSection(parsed_token_tags) ==
  Len(parsed_token_tags) = 1 /\ parsed_token_tags[1] = END_OF_SECTION_MARKER

\* text[offset:offset + len(parsed_token_tags[0])] == parsed_token_tags[0]
AtSurfaceForm(parsed_token_tags) ==
  Slice(parse_text, parse_offset, parse_offset + Len(parsed_token_tags[1]))
    = parsed_token_tags[1]

\* The turn of the for loop on the EOS line: continue.
SkipEndOfSection ==
  /\ ppc = "loop"
  /\ parse_tokens # <<>>
  /\ IsEndOfSection(Head(parse_tokens))
  /\ parse_tokens' = Tail(parse_tokens)
  /\ UNCHANGED <<ppc, parse_text, parse_text_offset, parse_mecab_out, parse_offset,
                 parse_found>>
  /\ UNCHANGED <<avars, dvars, svars, tvars>>

\* The turn of the for loop on a line with an unexpected number of tags.
RaiseUnexpectedTagCount ==
  /\ ppc = "loop"
  /\ parse_tokens # <<>>
  /\ ~IsEndOfSection(Head(parse_tokens))
  /\ Len(Head(parse_tokens)) \notin EXPECTED_TOKEN_TAG_COUNTS
  /\ ppc' = "raised"
  /\ UNCHANGED <<parse_text, parse_text_offset, parse_mecab_out, parse_tokens,
                 parse_offset, parse_found>>
  /\ UNCHANGED <<avars, dvars, svars, tvars>>

\* One turn of the while loop: offset += 1.  Past the end of the text the
\* slice is empty for every further offset, so the loop goes on for ever from
\* there; the model stops counting at len(text) + 1.
AdjustOffset ==
  /\ ppc = "loop"
  /\ parse_tokens # <<>>
  /\ ~IsEndOfSection(Head(parse_tokens))
  /\ Len(Head(parse_tokens)) \in EXPECTED_TOKEN_TAG_COUNTS
  /\ ~AtSurfaceForm(Head(parse_tokens))
  /\ parse_offset <= Len(parse_text)
  /\ parse_offset' = parse_offset + 1
  /\ UNCHANGED <<ppc, parse_text, parse_text_offset, parse_mecab_out, parse_tokens,
                 parse_found>>
  /\ UNCHANGED <<avars, dvars, svars, tvars>>

\* The rest of the turn once the while loop has ended: the item is created
\* and appended, and offset moves past the surface form.
AppendFoundItem ==
  /\ ppc = "loop"
  /\ parse_tokens # <<>>
  /\ ~IsEndOfSection(Head(parse_tokens))
  /\ Len(Head(parse_tokens)) \in EXPECTED_TOKEN_TAG_COUNTS
  /\ AtSurfaceForm(Head(parse_tokens))
  /\ LET parsed_token_tags == Head(parse_tokens)
         interp == create_mecab_interp(parsed_token_tags)
         fli == create_found_lexical_item(parsed_token_tags, interp,
                                          parse_text_offset + parse_offset)
     IN /\ parse_found' = Append(parse_found, fli)
        /\ parse_offset' = parse_offset + Len(parsed_token_tags[1])
  /\ parse_tokens' = Tail(parse_tokens)
  /\ UNCHANGED <<ppc, parse_text, parse_text_offset, parse_mecab_out>>
  /\ UNCHANGED <<avars, dvars, svars, tvars>>

\* return found_lexical_items
ParseReturn ==
  /\ ppc = "loop"
  /\ parse_tokens = <<>>
  /\ ppc' = "returned"
  /\ UNCHANGED <<parse_text, parse_text_offset, parse_mecab_out, parse_tokens,
                 parse_offset, parse_found>>
  /\ UNCHANGED <<avars, dvars, svars, tvars>>

ParseNext ==
  \/ ParseOutput
  \/ SkipEndOfSection
  \/ RaiseUnexpectedTagCount
  \/ AdjustOffset
  \/ AppendFoundItem
  \/ ParseReturn

SpecParse == ParseInit /\ [][ParseNext]_vars

\* ------------------------------------------------------------------------
\* run_tests.py: "with TestMyakuStack() as test_stack: ..." as a state machine
\* ------------------------------------------------------------------------
CONTAINER_STARTUP_TIMEOUT == 30

\* An exception, with the step that raised it.
Exc(type, raised_by) == Some([type |-> type, raised_by |-> raised_by])

StackInit ==
  /\ spc = "init"
  /\ use_existing_images \in {"None", "prod", "test"}
  /\ waited_secs = 0
  /\ all_running = None
  /\ polls = 0
  /\ trace = <<>>
  /\ exc = None
  /\ tpc = "unused"
  /\ docker_objs = <<>>
  /\ todo = <<>>
  /\ attempted = {}
  /\ warned = {}
  /\ AnalyzerIdle
  /\ DictIdle
  /\ ParseIdle

\* TestMyakuStack.__init__ up to the try statement: the images are built
\* unless existing ones are used; a failed docker build raises RuntimeError.
BuildStackImages ==
  /\ spc = "init"
  /\ IF use_existing_images = "None"
     THEN \E ok \in BOOLEAN :
            IF ok THEN spc' = "deploy" /\ UNCHANGED exc
            ELSE spc' = "raised" /\ exc' = Exc("RuntimeError", "build")
     ELSE spc' = "deploy" /\ UNCHANGED exc
  /\ UNCHANGED <<use_existing_images, waited_secs, all_running, polls, trace>>
  /\ UNCHANGED <<avars, dvars, pvars, tvars>>

\* _deploy_stack_using_prod_images or _deploy_stack_using_test_images up to
\* the call of _wait_for_all_containers_running: run_docker_subprocess runs
\* "docker stack deploy" and raises RuntimeError on a non-zero return code.
DeployStack ==
  /\ spc = "deploy"
  /\ trace' = Append(trace, "stack deploy")
  /\ \E ok \in BOOLEAN :
       IF ok THEN spc' = "wait" /\ UNCHANGED exc
       ELSE spc' = "init_teardown" /\ exc' = Exc("RuntimeError", "deploy")
  /\ UNCHANGED <<use_existing_images, waited_secs, all_running, polls>>
  /\ UNCHANGED <<avars, dvars, pvars, tvars>>

\* One turn of the while loop of _wait_for_all_containers_running: the
\* services are listed and their tasks looked at; the loop is left when all
\* are running (and then __init__ returns and the body of the with statement
\* starts), and otherwise a second is slept.
PollServices ==
  /\ spc = "wait"
  /\ waited_secs < CONTAINER_STARTUP_TIMEOUT
  /\ polls' = polls + 1
  /\ \E running \in BOOLEAN :
       /\ all_running' = Some(running)
       /\ IF running THEN spc' = "body" /\ UNCHANGED waited_secs
          ELSE waited_secs' = waited_secs + 1 /\ UNCHANGED spc
  /\ UNCHANGED <<use_existing_images, trace, exc>>
  /\ UNCHANGED <<avars, dvars, pvars, tvars>>

\* The while loop with the timeout taken as not reached for ever: after the
\* last poll the function returns.
WaitTimedOut_returns ==
  /\ spc = "wait"
  /\ ~(waited_secs < CONTAINER_STARTUP_TIMEOUT)
  /\ spc' = "body"
  /\ UNCHANGED <<use_existing_images, waited_secs, all_running, polls, trace, exc>>
  /\ UNCHANGED <<avars, dvars, pvars, tvars>>

\* The while loop has ended on its condition: "if not all_running", the
\* debug info of the stack is logged and RuntimeError raised.
WaitTimedOut ==
  /\ spc = "wait"
  /\ ~(waited_secs < CONTAINER_STARTUP_TIMEOUT)
  /\ IF all_running = Some(TRUE)
     THEN spc' = "body" /\ UNCHANGED <<trace, exc>>
     ELSE /\ trace' = Append(trace, "debug info")
          /\ exc' = Exc("RuntimeError", "wait")
          /\ spc' = "init_teardown"
  /\ UNCHANGED <<use_existing_images, waited_secs, all_running, polls>>
  /\ UNCHANGED <<avars, dvars, pvars, tvars>>

\* The exception of the deployment re-raised without the teardown.
InitTeardown_skipped ==
  /\ spc = "init_teardown"
  /\ spc' = "raised"
  /\ UNCHANGED <<use_existing_images, waited_secs, all_running, polls, trace, exc>>
  /\ UNCHANGED <<avars, dvars, pvars, tvars>>

\* "except BaseException: self.teardown(); raise" in __init__.  teardown runs
\* "docker stack rm"; when that fails its RuntimeError is what propagates.
InitTeardown ==
  /\ spc = "init_teardown"
  /\ trace' = Append(trace, "stack rm")
  /\ \E ok \in BOOLEAN :
       exc' = IF ok THEN exc ELSE Exc("RuntimeError", "teardown")
  /\ spc' = "raised"
  /\ UNCHANGED <<use_existing_images, waited_secs, all_running, polls>>
  /\ UNCHANGED <<avars, dvars, pvars, tvars>>

\* The body of the with statement in run_crawler_tests or run_web_tests
\* ends, normally or with an exception.
RunTests ==
  /\ spc = "body"
  /\ \E raises \in BOOLEAN :
       exc' = IF raises THEN Exc("Exception", "body") ELSE None
  /\ spc' = "exit_teardown"
  /\ UNCHANGED <<use_existing_images, waited_secs, all_running, polls, trace>>
  /\ UNCHANGED <<avars, dvars, pvars, tvars>>

\* TestMyakuStack.__exit__: self.teardown().  __exit__ returns None, so an
\* exception of the body goes on propagating.
ExitTeardown ==
  /\ spc = "exit_teardown"
  /\ trace' = Append(trace, "stack rm")
  /\ \E ok \in BOOLEAN :
       /\ exc' = IF ok THEN exc ELSE Exc("RuntimeError", "teardown")
       /\ spc' = IF ok /\ exc = None THEN "returned" ELSE "raised"
  /\ UNCHANGED <<use_existing_images, waited_secs, all_running, polls>>
  /\ UNCHANGED <<avars, dvars, pvars, tvars>>

StackNext ==
  \/ BuildStackImages
  \/ DeployStack
  \/ PollServices
  \/ WaitTimedOut
  \/ InitTeardown
  \/ RunTests
  \/ ExitTeardown

SpecStack == StackInit /\ [][StackNext]_vars

\* The script goes on running: a step that can be taken is taken.
SpecStackLive == StackInit /\ [][StackNext]_vars /\ WF_vars(StackNext)

\* ------------------------------------------------------------------------
\* run_tests.py: teardown_test_stacks as a state machine
\* ------------------------------------------------------------------------
NORMAL_REMOVE_DOCKER_OBJECTS ==
  <<"volumes", "networks", "configs", "secrets", "services">>

\* The kinds of docker objects in the order teardown_test_stacks visits them.
RemoveOrder == <<"stacks", "containers">> \o NORMAL_REMOVE_DOCKER_OBJECTS

\* Of each kind there is no object, or one whose name starts with
\* _TEST_STACK_NAME_PREFIX, which can be removed ("test") or cannot
\* ("test_stuck"), or one with another name.
ObjName(kind) == kind
StartsWithTestPrefix(objs, kind) == objs[kind] \in {"test", "test_stuck"}
ListTestObjs(objs, kind) ==
  IF StartsWithTestPrefix(objs, kind) THEN <<ObjName(kind)>> ELSE <<>>

TeardownInit ==
  /\ tpc = "call"
  /\ docker_objs \in [Range(RemoveOrder) -> {"none", "test", "test_stuck", "other"}]
  /\ \A k \in Range(NORMAL_REMOVE_DOCKER_OBJECTS) : docker_objs[k] # "other"
  /\ todo = <<>>
  /\ attempted = {}
  /\ warned = {}
  /\ spc = "unused"
  /\ use_existing_images = "None"
  /\ waited_secs = 0
  /\ all_running = None
  /\ polls = 0
  /\ trace = <<>>
  /\ exc = None
  /\ AnalyzerIdle
  /\ DictIdle
  /\ ParseIdle

\* test_stacks = get_test_stacks()
GetTestStacks ==
  /\ tpc = "call"
  /\ tpc' = "stacks"
  /\ todo' = ListTestObjs(docker_objs, "stacks")
  /\ UNCHANGED <<docker_objs, attempted, warned>>
  /\ UNCHANGED <<avars, dvars, pvars, svars>>

\* One turn of the for loop over the test stacks: run_docker_subprocess runs
\* "docker stack rm" and raises RuntimeError on a non-zero return code, which
\* nothing in teardown_test_stacks catches.
RemoveTestStack ==
  /\ tpc = "stacks"
  /\ todo # <<>>
  /\ attempted' = attempted \cup {Head(todo)}
  /\ IF docker_objs[Head(todo)] = "test_stuck"
     THEN tpc' = "raised" /\ UNCHANGED todo
     ELSE todo' = Tail(todo) /\ UNCHANGED tpc
  /\ UNCHANGED <<docker_objs, warned>>
  /\ UNCHANGED <<avars, dvars, pvars, svars>>

\* A for loop is over: the objects of the next kind are listed, or, after the
\* last kind, the function returns.
ListObjects ==
  /\ tpc \in Range(RemoveOrder)
  /\ todo = <<>>
  /\ LET k == CHOOSE i \in 1..Len(RemoveOrder) : RemoveOrder[i] = tpc
     IN IF k = Len(RemoveOrder)
        THEN tpc' = "returned" /\ UNCHANGED todo
        ELSE /\ tpc' = RemoveOrder[k + 1]
             /\ todo' = ListTestObjs(docker_objs, RemoveOrder[k + 1])
  /\ UNCHANGED <<docker_objs, attempted, warned>>
  /\ UNCHANGED <<avars, dvars, pvars, svars>>

\* attempt_remove_docker_obj on a container or an object of one of the
\* _NORMAL_REMOVE_DOCKER_OBJECTS: docker.errors.APIError is caught and logged
\* as a warning.
AttemptRemove ==
  /\ tpc \in Range(RemoveOrder) \ {"stacks"}
  /\ todo # <<>>
  /\ attempted' = attempted \cup {Head(todo)}
  /\ warned' = IF docker_objs[Head(todo)] = "test_stuck"
               THEN warned \cup {Head(todo)}
               ELSE warned
  /\ todo' = Tail(todo)
  /\ UNCHANGED <<tpc, docker_objs>>
  /\ UNCHANGED <<avars, dvars, pvars, svars>>

TeardownNext ==
  \/ GetTestStacks
  \/ RemoveTestStack
  \/ ListObjects
  \/ AttemptRemove

SpecTeardown == TeardownInit /\ [][TeardownNext]_vars

\* ------------------------------------------------------------------------
\* Claims about find_article_lexical_items
\* ------------------------------------------------------------------------
Returned_flis == Val(result)
IsMecabInterp(interp) == ~IsNone(interp.mecab_interp)
IsJMdictInterp(interp) == ~IsNone(interp.jmdict_interp_entry_id)

\* C1: the list that find_article_lexical_items returns holds no two items
\* with the same base form.
C1_UniqueBaseForms ==
  result # None =>
    \A i, j \in 1..Len(Returned_flis) :
      i # j => Returned_flis[i].base_form # Returned_flis[j].base_form

\* A returned item that unites a base item of MeCab with a meta item of JMdict
\* of the same base form.
C1_Witness ==
  /\ result # None
  /\ \E i \in 1..Len(Returned_flis) :
       /\ \E k \in 1..Len(Returned_flis[i].possible_interps) :
            IsMecabInterp(Returned_flis[i].possible_interps[k])
       /\ \E k \in 1..Len(Returned_flis[i].possible_interps) :
            IsJMdictInterp(Returned_flis[i].possible_interps[k])
       /\ Len(Returned_flis[i].found_positions) >= 2

\* The text of the article at a position.
TextAt(p) == Slice(full_text, p.start, p.start + p.length)
CachedSurfaceForms(fli, p) ==
  {c.surface_form : c \in {d \in fli.surface_form_cache : d.pos = p}}

\* C2: every position of every returned item lies inside the text of the
\* article, and the text there is the base form of the item or a surface form
\* cached on the item for that position.
C2_PositionsReadItem ==
  result # None =>
    \A i \in 1..Len(Returned_flis) :
      \A k \in 1..Len(Returned_flis[i].found_positions) :
        LET f == Returned_flis[i]
            p == f.found_positions[k]
        IN /\ p.start + p.length <= Len(full_text)
           /\ TextAt(p) \in {f.base_form} \cup CachedSurfaceForms(f, p)

\* C3: the positions of every returned item are in the order of their starts
\* and do not overlap.
C3_PositionsOrdered ==
  result # None =>
    \A i \in 1..Len(Returned_flis) :
      \A k, l \in 1..Len(Returned_flis[i].found_positions) :
        k < l =>
          Returned_flis[i].found_positions[k].start
            + Returned_flis[i].found_positions[k].length
              <= Returned_flis[i].found_positions[l].start

\* The blocks of the article that have text.
TextBlocks == {b \in Range(splitlines(full_text)) : Len(b) # 0}

\* MeCab's output for the block has a line, other than the EOS line, that
\* does not have 4, 5 or 6 tags.
HasUnexpectedTagCount(block) ==
  \E tags \in Range(parse_mecab_output(MecabOut(block))) :
    /\ tags # <<END_OF_SECTION_MARKER>>
    /\ Len(tags) \notin {4, 5, 6}

\* C12: parse raises TextAnalysisError on a block exactly when MeCab's output
\* for it has a line, other than EOS, whose number of tags is not 4, 5 or 6,
\* and it then returns no items; find_article_lexical_items on an article
\* with such a block returns nothing, and it raises only for such an article.
C12_UnexpectedTagCountRaises ==
  LET unexpected == {b \in TextBlocks : HasUnexpectedTagCount(b)}
  IN /\ \A b \in TextBlocks :
          LET parsed == parse(b, 0)
          IN IF b \in unexpected
             THEN parsed.error = Some("TextAnalysisError") /\ parsed.flis = <<>>
             ELSE IsNone(parsed.error)
     /\ (unexpected # {}) => (result = None /\ apc # "returned")
     /\ (apc = "raised") => (unexpected # {})

\* The call has raised on a later block after an earlier block gave it items.
C12_Witness ==
  /\ apc = "raised"
  /\ items # <<>>
  /\ result = None

\* C14: every base item that MecabTagger.parse has produced during the call
\* has its position inside the article, and the article reads the token's
\* surface form there, whatever blocks, empty lines, line boundaries and
\* white space come before it.
C14_BasePositionsReadSurfaceForm ==
  \A i \in 1..Len(items) :
    \A c \in items[i].surface_form_cache :
      /\ c.pos.start + c.pos.length <= Len(full_text)
      /\ TextAt(c.pos) = c.surface_form

\* The items that _find_lexical_items filters for a block: the base items of
\* MeCab, then the meta items.
FoundInBlock(block) ==
  parse(block, 0).flis \o find_meta_lexical_items(parse(block, 0).flis, jmdict)
MorphInterps(fli) ==
  {Val(fli.possible_interps[k].mecab_interp) :
     k \in {j \in 1..Len(fli.possible_interps) :
              ~IsNone(fli.possible_interps[j].mecab_interp)}}

\* C15: _find_lexical_items drops an item exactly when all of its MeCab
\* interps have the symbol tag as their first part of speech, and every
\* returned item has a MeCab interp whose first part of speech is not the
\* symbol tag.
C15_SymbolFilter ==
  LET FirstPartIsSymbol(mi) == mi.parts_of_speech[1] = <<SYMBOL_PART_OF_SPEECH>>
  IN  /\ \A b \in TextBlocks :
           IsNone(parse(b, 0).error) =>
             \A item \in Range(FoundInBlock(b)) :
               (item \notin Range(find_lexical_items(b, 0, jmdict).flis))
                 <=> (\A mi \in MorphInterps(item) : FirstPartIsSymbol(mi))
      /\ result # None =>
           \A i \in 1..Len(Returned_flis) :
             \E mi \in MorphInterps(Returned_flis[i]) : ~FirstPartIsSymbol(mi)

\* C16: a second call of find_article_lexical_items on the same article
\* returns the list the first call returned, and no step of a call changes
\* the dictionary store of the analyzer.
C16_SecondCallReturnsTheSame ==
  /\ []((prev # None /\ result # None) => (result = prev))
  /\ [][jmdict' = jmdict]_vars

\* Two calls have returned a list with an item found at several positions.
C16_Witness ==
  /\ prev # None
  /\ result # None
  /\ \E i \in 1..Len(Returned_flis) : Len(Returned_flis[i].found_positions) >= 2

\* C22: for every window looked up, _lookup_meta_lexical_item emits nothing
\* when the lookups of the tuple of base forms, of the joined surface forms and
\* of the joined base forms are all empty; otherwise it emits one meta item
\* per distinct entry of the three results, in the order in which the entries
\* first occur in decomp + surface + base, with the entry's text form as base
\* form and one interp, which has no MeCab interp, the entry's id, and as
\* sources exactly the lookups whose result holds the entry.  The analyzer
\* has these items in its list.
C22_MetaItemPerEntry ==
  \A w \in lookups :
    LET decomp == DictGet(Val(jmdict.mecab_decomp_map), BaseForms(w), <<>>)
        surface == DictGet(Val(jmdict.entry_map), Concat(SurfaceForms(w)), <<>>)
        base == DictGet(Val(jmdict.entry_map), Concat(BaseForms(w)), <<>>)
        all == decomp \o surface \o base
        First(e) == SetMin({i \in 1..Len(all) : all[i] = e})
        Nth(k) == CHOOSE e \in Range(all) :
                    Cardinality({f \in Range(all) : First(f) < First(e)}) = k - 1
        SourcesOf(e) ==
          {x \in {"JMDICT_MECAB_DECOMP", "JMDICT_SURFACE_FORM", "JMDICT_BASE_FORM"} :
             \/ x = "JMDICT_MECAB_DECOMP" /\ e \in Range(decomp)
             \/ x = "JMDICT_SURFACE_FORM" /\ e \in Range(surface)
             \/ x = "JMDICT_BASE_FORM" /\ e \in Range(base)}
        emitted == lookup_meta_lexical_item(w, jmdict)
    IN /\ Len(emitted) = Cardinality(Range(all))
       /\ \A k \in 1..Len(emitted) :
            /\ emitted[k].base_form = Nth(k).text_form
            /\ Len(emitted[k].possible_interps) = 1
            /\ IsNone(emitted[k].possible_interps[1].mecab_interp)
            /\ emitted[k].possible_interps[1].jmdict_interp_entry_id
                 = Some(Nth(k).entry_id)
            /\ Range(emitted[k].possible_interps[1].interp_sources) = SourcesOf(Nth(k))
            /\ Len(emitted[k].possible_interps[1].interp_sources)
                 = Cardinality(SourcesOf(Nth(k)))
            /\ emitted[k] \in Range(items)

\* A window was looked up that gave nothing, and one that gave several entries
\* with different sources.
C22_Witness ==
  /\ \E w \in lookups : lookup_meta_lexical_item(w, jmdict) = <<>>
  /\ \E w \in lookups :
       \E k, l \in 1..Len(lookup_meta_lexical_item(w, jmdict)) :
         lookup_meta_lexical_item(w, jmdict)[k].possible_interps[1].interp_sources
           # lookup_meta_lexical_item(w, jmdict)[l].possible_interps[1].interp_sources

\* C23: every meta item emitted for a looked-up window has exactly one
\* position; it starts where the position of the window's first base item
\* starts, its length is the sum of the lengths of the surface forms of the
\* window's base items, and it ends where the position of the window's last
\* base item ends.
C23_MetaPositionCoversWindow ==
  \A w \in lookups :
    \A k \in 1..Len(lookup_meta_lexical_item(w, jmdict)) :
      LET meta == lookup_meta_lexical_item(w, jmdict)[k]
          first == w[1].found_positions[1]
          last_ == w[Len(w)].found_positions[1]
      IN /\ Len(meta.found_positions) = 1
         /\ meta.found_positions[1].start = first.start
         /\ meta.found_positions[1].length = SumLen(SurfaceForms(w))
         /\ meta.found_positions[1].start + meta.found_positions[1].length
              = last_.start + last_.length

\* C25: in every block, every run of two or more base items in the order of
\* the text whose tuple of base forms is a key of the decomposition index, or
\* whose joined surface forms or joined base forms are a key of the text-form
\* index, is a window that _find_meta_lexical_items looks up: the break at the
\* first window beyond the maximum lengths skips no window that has a match.
C25_NoMatchLostToPruning ==
  [][(FindBlockItems /\ apc' # "raised") =>
       LET base_items == parse(Head(blocks), offset).flis
       IN \A i, j \in 1..Len(base_items) :
            LET w == SubSeq(base_items, i, j)
            IN (/\ i < j
                /\ \/ BaseForms(w) \in DictKeys(Val(jmdict.mecab_decomp_map))
                   \/ Concat(SurfaceForms(w)) \in DictKeys(Val(jmdict.entry_map))
                   \/ Concat(BaseForms(w)) \in DictKeys(Val(jmdict.entry_map)))
               => w \in lookups']_vars

\* A call has returned that found a match in a window and left a longer
\* window of the same block out.
C25_Witness ==
  /\ apc = "returned"
  /\ \E w \in lookups : lookup_meta_lexical_item(w, jmdict) # <<>>
  /\ \E b \in TextBlocks :
       /\ Len(parse(b, 0).flis) >= 3
       /\ \E v \in lookups : BaseForms(v) = BaseForms(SubSeq(parse(b, 0).flis, 1, 2))
       /\ \A v \in lookups : Len(v) < Len(parse(b, 0).flis)

\* C11: every window of base items that _find_meta_lexical_items looks up in
\* the dictionary is a run of two or more items in the order of the text, and
\* its number of items is at most max_mecab_decomp_len, or the lengths of its
\* base forms sum to at most max_text_form_len, or the lengths of its first
\* surface forms do.
C11_LookupWindowsWithinMaxLens ==
  \A w \in lookups :
    /\ Len(w) >= 2
    /\ \A k \in 1..(Len(w) - 1) :
         w[k].found_positions[1].start + w[k].found_positions[1].length
           <= w[k + 1].found_positions[1].start
    /\ \/ Len(w) <= Val(jmdict.max_mecab_decomp_len)
       \/ SumLen(BaseForms(w)) <= Val(jmdict.max_text_form_len)
       \/ SumLen(SurfaceForms(w)) <= Val(jmdict.max_text_form_len)

\* A call that has returned after looking up a window as long as the longest
\* decomposition of the dictionary, in a text of more base items than that.
C11_Witness ==
  /\ apc = "returned"
  /\ \E w \in lookups :
       /\ Len(w) = Val(jmdict.max_mecab_decomp_len)
       /\ Len(parse(full_text, 0).flis) > Len(w)

\* ------------------------------------------------------------------------
\* Claims about MecabTagger.parse
\* ------------------------------------------------------------------------
\* The lines of MeCab's output other than EOS: as MeCab printed them, and as
\* _parse_mecab_output hands them to the for loop of parse.
OutputLines == SelectSeq(parse_mecab_out, LAMBDA l : l # <<END_OF_SECTION_MARKER>>)
TokenLines ==
  SelectSeq(parse_mecab_output(parse_mecab_out), LAMBDA t : ~IsEndOfSection(t))
MecabInterpOf(fli) == Val(fli.possible_interps[1].mecab_interp)

\* C13: the offset of parse never moves past the end of the text, which it
\* must not if parse is to end on a token whose surface form the text does
\* not have at or after the offset.
C13_OffsetWithinText ==
  parse_offset <= Len(parse_text)

\* C17: when parse returns, it returns one item per line of MeCab's output
\* other than EOS, in the order of the lines, each with exactly one position
\* and exactly one interp, which is a MeCab interp whose only source is MECAB.
C17_OneItemPerLine ==
  (ppc = "returned") =>
    /\ Len(parse_found) = Len(OutputLines)
    /\ \A i \in 1..Len(parse_found) :
         LET fli == parse_found[i]
         IN /\ Len(fli.found_positions) = 1
            /\ Len(fli.possible_interps) = 1
            /\ ~IsNone(fli.possible_interps[1].mecab_interp)
            /\ IsNone(fli.possible_interps[1].jmdict_interp_entry_id)
            /\ fli.possible_interps[1].interp_sources = <<"MECAB">>
            /\ i <= Len(OutputLines)
            /\ CachedSurfaceForms(fli, fli.found_positions[1]) = {OutputLines[i][1]}

\* parse has returned two items for two lines with different surface forms.
C17_Witness ==
  /\ ppc = "returned"
  /\ Len(parse_found) = 2
  /\ get_first_surface_form(parse_found[1]) # get_first_surface_form(parse_found[2])

\* C19: when parse returns, the item of each line has the line's column 2,
\* after the corrections of _adjust_if_known_problem, as its base form, the
\* length of column 0 as the length of its position and column 3 split on
\* "-" as its parts of speech, whichever columns of the line are empty.
C19_ColumnsByPosition ==
  (ppc = "returned") =>
    \A i \in 1..Len(parse_found) :
      i <= Len(OutputLines) =>
        LET tags == adjust_if_known_problem(OutputLines[i])
        IN /\ parse_found[i].base_form = tags[3]
           /\ parse_found[i].found_positions[1].length = Len(tags[1])
           /\ MecabInterpOf(parse_found[i]).parts_of_speech = SplitPos(tags[4], <<>>)

\* C20: when parse returns, the interp of a line of 6 tags has tag 4 as its
\* conjugated type and tag 5 as its conjugated form, the interp of a line of 5
\* tags has tag 4 as its conjugated type and no conjugated form, and the
\* interp of a line of 4 tags has neither.
C20_ConjugationTags ==
  (ppc = "returned") =>
    \A i \in 1..Len(parse_found) :
      i <= Len(TokenLines) =>
        LET tags == TokenLines[i]
            interp == MecabInterpOf(parse_found[i])
        IN /\ interp.conjugated_type = (IF Len(tags) >= 5 THEN Some(tags[5]) ELSE None)
           /\ interp.conjugated_form = (IF Len(tags) >= 6 THEN Some(tags[6]) ELSE None)

\* C21: _parse_mecab_output hands on every line of MeCab's output with its
\* corrections made in this order: an empty column 2 (base form) of a line with
\* a non-empty column 0 (surface form) becomes column 0, then a line that is a
\* key of the table of known problems becomes the table's value; a line that
\* neither rule applies to is handed on as it is, less its empty columns.  The
\* item of the line of the known problem gets the base form of the table's
\* value.
C21_TagCorrections ==
  /\ [][LET Blank(line) == Len(line) >= 3 /\ line[3] = <<>> /\ line[1] # <<>>
            Filled(line) == IF Blank(line) THEN [line EXCEPT ![3] = line[1]] ELSE line
            Corrected(line) ==
              IF Filled(line) = ADJUST_TAGS_KEY THEN ADJUST_TAGS_VALUE ELSE Filled(line)
        IN ParseOutput =>
             /\ Len(parse_tokens') = Len(parse_mecab_out)
             /\ \A i \in 1..Len(parse_mecab_out) :
                  /\ parse_tokens'[i]
                       = SelectSeq(Corrected(parse_mecab_out[i]), LAMBDA t : Len(t) > 0)
                  /\ (~Blank(parse_mecab_out[i]) /\ parse_mecab_out[i] # ADJUST_TAGS_KEY) =>
                       parse_tokens'[i]
                         = SelectSeq(parse_mecab_out[i], LAMBDA t : Len(t) > 0)]_vars
  /\ []((ppc = "returned") =>
          \A i \in 1..Len(parse_found) :
            (i <= Len(OutputLines) /\ OutputLines[i] = ADJUST_TAGS_KEY) =>
              parse_found[i].base_form = ADJUST_TAGS_VALUE[3])

\* parse has returned an item for the line of the known problem, with the base
\* form of the table's value, and an item for a line without a base form, with
\* the surface form as its base form.
C21_Witness ==
  /\ ppc = "returned"
  /\ Len(parse_found) = Len(OutputLines)
  /\ \E i, j \in 1..Len(parse_found) :
       /\ OutputLines[i] = ADJUST_TAGS_KEY
       /\ parse_found[i].base_form = <<"na">>
       /\ OutputLines[j][3] = <<>>
       /\ parse_found[j].base_form = OutputLines[j][1]

\* ------------------------------------------------------------------------
\* Claims about run_tests.py
\* ------------------------------------------------------------------------
\* C28: _wait_for_all_containers_running ends, and after at most
\* _CONTAINER_STARTUP_TIMEOUT polls of the services; it returns only after a
\* poll at which all tasks were running, and it raises RuntimeError, with the
\* debug info of the stack logged just before, when no poll of the
\* _CONTAINER_STARTUP_TIMEOUT gave that.
C28_WaitEndsWithinTimeout ==
  /\ [](polls <= CONTAINER_STARTUP_TIMEOUT)
  /\ []((spc = "wait") => (polls = waited_secs /\ all_running # Some(TRUE)))
  /\ [][(spc = "wait" /\ spc' = "body") => (all_running' = Some(TRUE))]_vars
  /\ [][(spc = "wait" /\ spc' # "wait" /\ spc' # "body") =>
          /\ polls = CONTAINER_STARTUP_TIMEOUT
          /\ all_running = Some(FALSE)
          /\ exc' = Exc("RuntimeError", "wait")
          /\ trace' = Append(trace, "debug info")]_vars
  /\ ((spc = "wait") ~> (spc # "wait"))

\* The wait has returned at the last poll the timeout allows.
C28_Witness ==
  /\ spc = "body"
  /\ polls = CONTAINER_STARTUP_TIMEOUT
  /\ all_running = Some(TRUE)

\* C29: when the with statement of run_crawler_tests or run_web_tests has
\* ended, in whatever way, a stack whose "docker stack deploy" was run has had
\* its "docker stack rm" run after it, as the last docker command; an
\* exception of the deployment, of the wait or of the body propagates only
\* after that teardown.
C29_DeployedStackTornDown ==
  (spc \in {"returned", "raised"}) =>
    /\ ("stack deploy" \in Range(trace)) =>
         (trace[Len(trace)] = "stack rm" /\ trace[1] = "stack deploy")
    /\ (exc # None /\ Val(exc).raised_by \in {"deploy", "wait", "body"}) =>
         "stack rm" \in Range(trace)
    /\ (spc = "returned") => (exc = None /\ "stack rm" \in Range(trace))

\* The wait for the containers timed out in __init__, the stack was torn
\* down, and the RuntimeError of the wait has propagated.
C29_Witness ==
  /\ spc = "raised"
  /\ exc = Exc("RuntimeError", "wait")
  /\ trace = <<"stack deploy", "debug info", "stack rm">>

\* C30: when teardown_test_stacks has ended, the removal of every stack,
\* container, volume, network, config, secret and service whose name starts
\* with the test-stack prefix has been attempted; for each one that could not
\* be removed a warning was logged, and the function has returned.
C30_RemovalOfAllAttempted ==
  (tpc \in {"returned", "raised"}) =>
    /\ tpc = "returned"
    /\ \A kind \in Range(RemoveOrder) :
         /\ StartsWithTestPrefix(docker_objs, kind) => ObjName(kind) \in attempted
         /\ (docker_objs[kind] = "test_stuck") => ObjName(kind) \in warned

\* ------------------------------------------------------------------------
\* Claims about JMdict
\* ------------------------------------------------------------------------
LoadReturned == last.op = "load_jmdict" /\ last.outcome = "returned"
XmlIndexes(doc) == load_from_xml(FreshJMdict, doc).store

\* C24: when load_jmdict has parsed an XML file, every entry of the text-form
\* index has the parts of speech, fields, dialects and misc of the last sense
\* element, in document order, of its record that applies to it: a sense with
\* stagk or stagr children applies to the entries whose text form is among
\* them, a sense without any applies to all entries of the record.  An entry
\* that no sense applies to has the four unset.
C24_SenseProjection ==
  [][\A p \in Paths :
       (LoadJmdict(p) /\ last'.source = "xml" /\ last'.outcome = "running") =>
         \A key \in DictKeys(Val(store'.entry_map)) :
           \A entry \in Range(DictGet(Val(store'.entry_map), key, <<>>)) :
             LET root == XmlRoot(xml[p].doc)
                 record == root[CHOOSE r \in 1..Len(root) :
                                  \E e \in Range(root[r]) :
                                    e.tag = "ent_seq" /\ e.text = entry.entry_id]
                 senses == SelectSeq(record, LAMBDA e : e.tag = "sense")
                 applies == {i \in 1..Len(senses) :
                               \/ senses[i].stag = <<>>
                               \/ entry.text_form \in Range(senses[i].stag)}
                 Opt(texts) == IF texts = <<>> THEN None ELSE Some(texts)
             IN IF applies = {}
                THEN /\ entry.parts_of_speech = None /\ entry.fields = None
                     /\ entry.dialects = None /\ entry.misc = None
                ELSE /\ entry.parts_of_speech = Opt(senses[SetMax(applies)].pos)
                     /\ entry.fields = Opt(senses[SetMax(applies)].field)
                     /\ entry.dialects = Opt(senses[SetMax(applies)].dial)
                     /\ entry.misc = Opt(senses[SetMax(applies)].misc)]_vars

\* A load from the XML has returned with two entries of one record that got
\* their parts of speech from different senses, and an entry without any.
C24_Witness ==
  /\ LoadReturned
  /\ last.source = "xml"
  /\ \E k1, k2, k3 \in DictKeys(Val(store.entry_map)) :
       \E e1 \in Range(DictGet(Val(store.entry_map), k1, <<>>)),
          e2 \in Range(DictGet(Val(store.entry_map), k2, <<>>)),
          e3 \in Range(DictGet(Val(store.entry_map), k3, <<>>)) :
         /\ e1.entry_id = e2.entry_id
         /\ e1.parts_of_speech # None /\ e2.parts_of_speech # None
         /\ e1.parts_of_speech # e2.parts_of_speech
         /\ e1.misc # None /\ e2.misc = None
         /\ e3.parts_of_speech = None

\* C4: load_jmdict on an existing XML file loads the shelf exactly when the
\* shelf exists and its modification time is strictly greater than the XML
\* file's, and otherwise parses the XML; a load from the shelf leaves the shelf
\* file as it is, and a load from the XML that returns has written the
\* indexes it built to the shelf.
C4_LoadsShelfIffNewer ==
  /\ [][\A p \in Paths :
          (LoadJmdict(p) /\ xml[p].exists) =>
            /\ (last'.source = "shelf") <=> (shelf.exists /\ shelf.mtime > xml[p].mtime)
            /\ (last'.source # "shelf") => (last'.source = "xml")
            /\ (last'.source = "shelf") => (shelf' = shelf)]_vars
  /\ []((LoadReturned /\ last.source = "xml") =>
          /\ shelf.exists
          /\ shelf.data = Some(ShelfItems(store)))

\* A load that took the shelf, which was newer than the XML file.
C4_Witness ==
  /\ LoadReturned
  /\ last.source = "shelf"
  /\ shelf.mtime > xml[last.path].mtime
  /\ ~IsNone(store.max_text_form_len)

\* C5: the indexes and the two maximum lengths of a load from the shelf equal
\* those of the load from the XML that wrote the shelf: the same keys, and for
\* each key the same entries in the same order.
C5_CacheRoundTrip ==
  (LoadReturned /\ last.source = "shelf") =>
    /\ DictEq(Val(store.entry_map), Val(shelfFrom.entry_map))
    /\ DictEq(Val(store.mecab_decomp_map), Val(shelfFrom.mecab_decomp_map))
    /\ store.max_text_form_len = shelfFrom.max_text_form_len
    /\ store.max_mecab_decomp_len = shelfFrom.max_mecab_decomp_len

\* A load from the shelf that rebuilt a text-form index with several keys, in
\* another key order than the load from the XML had.
C5_Witness ==
  /\ LoadReturned
  /\ last.source = "shelf"
  /\ Len(Val(store.entry_map)) >= 3
  /\ Val(store.entry_map) # Val(shelfFrom.entry_map)

\* C6: a shelf file that a load would take as newer than the XML file of the
\* load that rewrites it, or rewrote it, holds the complete decomposition index
\* of that XML file, at every point of the rewrite and after it.
C6_ShelfRewriteAtomic ==
  \A p \in Paths :
    (/\ last.op = "load_jmdict" /\ last.path = p /\ last.source = "xml"
     /\ xml[p].exists /\ shelf.exists /\ shelf.mtime > xml[p].mtime)
    => shelf.data = Some(ShelfItems(XmlIndexes(xml[p].doc)))

\* C7: a failure of the shelf write does not propagate: the load_jmdict call
\* in which it happened returns normally.
C7_WriteFailureSwallowed ==
  (last.op = "load_jmdict" /\ last.error = "write failed") => last.outcome = "returned"

\* C8: load_jmdict on a path without a file raises ResourceLoadError.
C8_MissingXmlIsResourceLoadError ==
  [][\A p \in Paths :
       (LoadJmdict(p) /\ ~xml[p].exists) =>
         (last'.outcome = "raised" /\ last'.error = "ResourceLoadError")]_vars

\* C9: as long as no load has returned normally on the JMdict object, each of
\* the four accessors raises ResourceNotReadyError; once one has, none does.
C9_NotReadyUntilLoaded ==
  pc = "idle" =>
    \A op \in AccessorOps, key \in QueryKeys :
      (Access(op, store, key).error = Some("ResourceNotReadyError")) <=> ~loadedOk

\* C26: after a load_jmdict call that raised on a JMdict object on which no
\* load has returned, each of contains_entry, get_entries, max_text_form_len
\* and max_mecab_decomp_len raises ResourceNotReadyError.
C26_FailedLoadLeavesNotReady ==
  (last.op = "load_jmdict" /\ last.outcome = "raised" /\ ~loadedOk) =>
    \A op \in AccessorOps, key \in QueryKeys :
      Access(op, store, key) = Raised("ResourceNotReadyError")

\* C27: whenever load_jmdict(p) returns, after a load from the shelf or after
\* a load from the XML and the write of the shelf, the two indexes and the two
\* maximum lengths of the store are those that parsing the XML file now at p
\* gives, whatever loads and replacements of XML files came before.
C27_CacheCoherence ==
  [][\A p \in Paths :
       (/\ LoadJmdict(p) \/ (WriteShelfStore /\ last.path = p)
        /\ last'.op = "load_jmdict"
        /\ last'.outcome = "returned") =>
         /\ DictEq(Val(store'.entry_map), Val(XmlIndexes(xml[p].doc).entry_map))
         /\ DictEq(Val(store'.mecab_decomp_map),
                   Val(XmlIndexes(xml[p].doc).mecab_decomp_map))
         /\ store'.max_text_form_len = XmlIndexes(xml[p].doc).max_text_form_len
         /\ store'.max_mecab_decomp_len = XmlIndexes(xml[p].doc).max_mecab_decomp_len]_vars

\* C10: after a load that returned, from the XML or from the shelf, no key of
\* the text-form index is longer than max_text_form_len and no key of the
\* decomposition index is longer than max_mecab_decomp_len, and each index
\* has a key of exactly that length.
C10_MaxLensBoundKeys ==
  LoadReturned =>
    /\ \A k \in DictKeys(Val(store.entry_map)) :
         Len(k) <= Val(max_text_form_len(store).value)
    /\ \E k \in DictKeys(Val(store.entry_map)) :
         Len(k) = Val(max_text_form_len(store).value)
    /\ \A k \in DictKeys(Val(store.mecab_decomp_map)) :
         Len(k) <= Val(max_mecab_decomp_len(store).value)
    /\ \E k \in DictKeys(Val(store.mecab_decomp_map)) :
         Len(k) = Val(max_mecab_decomp_len(store).value)

\* A load from the shelf that returned with keys of several lengths in both
\* indexes.
C10_Witness ==
  /\ LoadReturned
  /\ last.source = "shelf"
  /\ \E k \in DictKeys(Val(store.entry_map)) : Len(k) < Val(store.max_text_form_len)
  /\ \E k \in DictKeys(Val(store.mecab_decomp_map)) : Len(k) < Val(store.max_mecab_decomp_len)

====
